---- MODULE Spec2Model ----
(***************************************************************************)
(* Model of pbrust's Vector3<T> (src/src/vector3.rs).                      *)
(*                                                                         *)
(* The element type T is modelled as a two's-complement integer of Bits    *)
(* bits (the tests instantiate i32, main.rs i64; the width is scaled down).*)
(* Integer arithmetic that leaves the range panics in a build with         *)
(* overflow checks ("debug") and wraps in one without ("release").         *)
(* Every operation of the type is one action: it draws the operands,       *)
(* applies the operation and records the operands and the result.          *)
(***************************************************************************)
EXTENDS Integers, FiniteSets, Sequences, TLC

VARIABLES build, op, u, v, s, u2, conv, ret

vars == <<build, op, u, v, s, u2, conv, ret>>

(* ------------------------------ bounds --------------------------------- *)

\* width of the element type in bits
Bits == 6
\* significand width of the floating-point type the length is returned in
MantBits == 4
\* operands are drawn from -MaxVal..MaxVal and the two extremes of the type
MaxVal == 1
\* the operands of the one-vector scenarios are drawn from -MaxWide..MaxWide
\* and the two extremes of the type
MaxWide == 4

(* --------------------------- element type ------------------------------ *)

Modulus == 2 ^ Bits
MinInt == -(2 ^ (Bits - 1))
MaxInt == 2 ^ (Bits - 1) - 1

Builds == {"debug", "release"}

\* the result of an evaluation: a value, or a panic that unwinds the caller
Ok(x) == [ok |-> TRUE, val |-> x]
Panic == [ok |-> FALSE, val |-> 0]

\* two's-complement wrap-around of a mathematical integer
Wrap(n) == ((n - MinInt) % Modulus) + MinInt

\* the value an integer operation yields for the mathematical result n
Checked(n) ==
  IF n \in MinInt..MaxInt THEN Ok(n)
  ELSE IF build = "debug" THEN Panic ELSE Ok(Wrap(n))

\* integer division truncates toward zero
TruncDiv(a, b) ==
  LET Abs(n) == IF n < 0 THEN -n ELSE n
      q == Abs(a) \div Abs(b)
  IN IF (a < 0) = (b < 0) THEN q ELSE -q

ElemAdd(a, b) == IF a.ok /\ b.ok THEN Checked(a.val + b.val) ELSE Panic
ElemSub(a, b) == IF a.ok /\ b.ok THEN Checked(a.val - b.val) ELSE Panic
ElemMul(a, b) == IF a.ok /\ b.ok THEN Checked(a.val * b.val) ELSE Panic
ElemDiv(a, b) ==
  IF ~(a.ok /\ b.ok) THEN Panic
  ELSE IF b.val = 0 THEN Panic
  ELSE IF a.val = MinInt /\ b.val = -1 THEN Panic
  ELSE Ok(TruncDiv(a.val, b.val))
ElemNeg(a) == IF a.ok THEN Checked(-a.val) ELSE Panic
ElemAbs(a) == IF a.ok /\ a.val < 0 THEN ElemNeg(a) ELSE a

(* ------------------------------ Vector3 -------------------------------- *)

new(x, y, z) == [x |-> x, y |-> y, z |-> z]
Zero == new(0, 0, 0)
PanicV == [ok |-> FALSE, val |-> Zero]

\* a struct expression: the fields are evaluated in order, any panic unwinds
MkVec(rx, ry, rz) ==
  IF rx.ok /\ ry.ok /\ rz.ok THEN Ok(new(rx.val, ry.val, rz.val)) ELSE PanicV

\* eq that forgets the last field
eq_xy(self, other) == self.x = other.x /\ self.y = other.y
\* #[derive(PartialEq)]
eq(self, other) == self.x = other.x /\ self.y = other.y /\ self.z = other.z
ne(self, other) == self.x # other.x \/ self.y # other.y \/ self.z # other.z

\* neg that forgets the last field
neg_xy(self) == MkVec(ElemNeg(Ok(self.x)), ElemNeg(Ok(self.y)), Ok(self.z))
\* #[derive(Neg)]
neg(self) == MkVec(ElemNeg(Ok(self.x)), ElemNeg(Ok(self.y)), ElemNeg(Ok(self.z)))

\* #[derive(Add, Sub)]: vector with vector, field by field
add(self, rhs) ==
  MkVec(ElemAdd(Ok(self.x), Ok(rhs.x)),
        ElemAdd(Ok(self.y), Ok(rhs.y)),
        ElemAdd(Ok(self.z), Ok(rhs.z)))
sub(self, rhs) ==
  MkVec(ElemSub(Ok(self.x), Ok(rhs.x)),
        ElemSub(Ok(self.y), Ok(rhs.y)),
        ElemSub(Ok(self.z), Ok(rhs.z)))

\* #[derive(Mul, Div)]: vector with scalar, every field with the same scalar
mul(self, rhs) ==
  MkVec(ElemMul(Ok(self.x), Ok(rhs)),
        ElemMul(Ok(self.y), Ok(rhs)),
        ElemMul(Ok(self.z), Ok(rhs)))
\* div that forgets the last field
div_xy(self, rhs) ==
  MkVec(ElemDiv(Ok(self.x), Ok(rhs)), ElemDiv(Ok(self.y), Ok(rhs)), Ok(self.z))
div(self, rhs) ==
  MkVec(ElemDiv(Ok(self.x), Ok(rhs)),
        ElemDiv(Ok(self.y), Ok(rhs)),
        ElemDiv(Ok(self.z), Ok(rhs)))

\* The compound assignments mutate the receiver one field after the other; a
\* panic in a field leaves the fields before it already assigned.  val is the
\* receiver as the call leaves it.
Assign3(self, rx, ry, rz) ==
  IF ~rx.ok THEN [ok |-> FALSE, val |-> self]
  ELSE IF ~ry.ok THEN [ok |-> FALSE, val |-> [self EXCEPT !.x = rx.val]]
  ELSE IF ~rz.ok THEN [ok |-> FALSE, val |-> [self EXCEPT !.x = rx.val, !.y = ry.val]]
  ELSE Ok(new(rx.val, ry.val, rz.val))

\* add_assign that forgets the last field
add_assign_xy(self, rhs) ==
  Assign3(self, ElemAdd(Ok(self.x), Ok(rhs.x)),
                ElemAdd(Ok(self.y), Ok(rhs.y)),
                Ok(self.z))
\* #[derive(AddAssign, SubAssign, MulAssign, DivAssign)]
add_assign(self, rhs) ==
  Assign3(self, ElemAdd(Ok(self.x), Ok(rhs.x)),
                ElemAdd(Ok(self.y), Ok(rhs.y)),
                ElemAdd(Ok(self.z), Ok(rhs.z)))
sub_assign(self, rhs) ==
  Assign3(self, ElemSub(Ok(self.x), Ok(rhs.x)),
                ElemSub(Ok(self.y), Ok(rhs.y)),
                ElemSub(Ok(self.z), Ok(rhs.z)))
mul_assign(self, rhs) ==
  Assign3(self, ElemMul(Ok(self.x), Ok(rhs)),
                ElemMul(Ok(self.y), Ok(rhs)),
                ElemMul(Ok(self.z), Ok(rhs)))
div_assign(self, rhs) ==
  Assign3(self, ElemDiv(Ok(self.x), Ok(rhs)),
                ElemDiv(Ok(self.y), Ok(rhs)),
                ElemDiv(Ok(self.z), Ok(rhs)))

\* dot with the sum associated to the right
dot_reassoc(self, other) ==
  ElemAdd(ElemMul(Ok(self.x), Ok(other.x)),
          ElemAdd(ElemMul(Ok(self.y), Ok(other.y)),
                  ElemMul(Ok(self.z), Ok(other.z))))
\* self.x * other.x + self.y * other.y + self.z * other.z
dot(self, other) ==
  ElemAdd(ElemAdd(ElemMul(Ok(self.x), Ok(other.x)),
                  ElemMul(Ok(self.y), Ok(other.y))),
          ElemMul(Ok(self.z), Ok(other.z)))

\* cross in the left-handed convention
cross_left(self, other) ==
  MkVec(ElemSub(ElemMul(Ok(self.z), Ok(other.y)), ElemMul(Ok(self.y), Ok(other.z))),
        ElemSub(ElemMul(Ok(self.x), Ok(other.z)), ElemMul(Ok(self.z), Ok(other.x))),
        ElemSub(ElemMul(Ok(self.y), Ok(other.x)), ElemMul(Ok(self.x), Ok(other.y))))
\* cross with a wrong factor in the y component
cross_bad_y(self, other) ==
  MkVec(ElemSub(ElemMul(Ok(self.y), Ok(other.z)), ElemMul(Ok(self.z), Ok(other.y))),
        ElemSub(ElemMul(Ok(self.z), Ok(other.x)), ElemMul(Ok(self.x), Ok(other.y))),
        ElemSub(ElemMul(Ok(self.x), Ok(other.y)), ElemMul(Ok(self.y), Ok(other.x))))
\* the right-handed cross product
cross(self, other) ==
  MkVec(ElemSub(ElemMul(Ok(self.y), Ok(other.z)), ElemMul(Ok(self.z), Ok(other.y))),
        ElemSub(ElemMul(Ok(self.z), Ok(other.x)), ElemMul(Ok(self.x), Ok(other.z))),
        ElemSub(ElemMul(Ok(self.x), Ok(other.y)), ElemMul(Ok(self.y), Ok(other.x))))

\* the field-wise absolute value
abs(self) == MkVec(ElemAbs(Ok(self.x)), ElemAbs(Ok(self.y)), ElemAbs(Ok(self.z)))

\* abs_dot that forgets the absolute value
abs_dot_signed(self, other) == dot(self, other)
\* abs(self.dot(other))
abs_dot(self, other) == ElemAbs(dot(self, other))

(* --------------------------- length and f64 ---------------------------- *)

\* Option<f64>
Some(f) == [some |-> TRUE, val |-> f]
None == [some |-> FALSE, val |-> 0]

\* the spacing of the floats around the magnitude m
RECURSIVE Ulp(_)
Ulp(m) == IF m < 2 ^ MantBits THEN 1 ELSE 2 * Ulp(m \div 2)

\* the float nearest to the integer n, ties to the even significand
RoundF64(n) ==
  LET m == IF n < 0 THEN -n ELSE n
      q == Ulp(m)
      lo == (m \div q) * q
      r == m - lo
      near == IF 2 * r < q THEN lo
              ELSE IF 2 * r > q THEN lo + q
              ELSE IF (lo \div q) % 2 = 0 THEN lo ELSE lo + q
  IN IF n < 0 THEN -near ELSE near

\* ToPrimitive::to_f64 of the element type: the nearest float, or None when
\* the element type cannot represent the value as an f64
to_f64(e) == {Some(RoundF64(e)), None}

\* the squared sum computed after a conversion to a wider type
SquaredSumUnbounded(self) ==
  Ok(self.x * self.x + self.y * self.y + self.z * self.z)
\* let length_squared = self.x * self.x + self.y * self.y + self.z * self.z
SquaredSum(self) ==
  ElemAdd(ElemAdd(ElemMul(Ok(self.x), Ok(self.x)),
                  ElemMul(Ok(self.y), Ok(self.y))),
          ElemMul(Ok(self.z), Ok(self.z)))

\* Option::unwrap_or_default in the place of expect
ExpectOrZero(c) == IF c.some THEN Ok(c.val) ELSE Ok(0)
\* Option::expect
Expect(c) == IF c.some THEN Ok(c.val) ELSE Panic

\* f64::sqrt: NaN for a negative argument, the root otherwise
FSqrt(f) == IF f < 0 THEN [nan |-> TRUE, sqrt_of |-> 0] ELSE [nan |-> FALSE, sqrt_of |-> f]

\* length_squared for the conversion outcome c
length_squared(self, c) ==
  LET q == SquaredSum(self) IN IF q.ok THEN Expect(c) ELSE Panic

\* length for the conversion outcome c
length(self, c) ==
  LET l == length_squared(self, c) IN IF l.ok THEN Ok(FSqrt(l.val)) ELSE Panic

(* ------------------------------ operands ------------------------------- *)

Elems == (-MaxVal..MaxVal) \cup {MinInt, MaxInt}
Vec3(S) == [x : S, y : S, z : S]

\* the operands of the unit tests
TestPairs ==
  {<<new(1, 2, 3), new(-3, 0, 5)>>, <<new(1, -2, -3), new(2, 4, -6)>>,
   <<new(1, 2, 3), new(1, 2, 3)>>, <<new(-1, 2, -3), new(1, -2, 3)>>}
TestScaled == {<<new(1, 2, 3), -2>>, <<new(-2, -4, -6), -2>>}

WideElems == (-MaxWide..MaxWide) \cup {MinInt, MaxInt}

Pairs == (Vec3(Elems) \X Vec3(Elems)) \cup TestPairs
Scaled == (Vec3(Elems) \X WideElems) \cup TestScaled
Singles == Vec3(WideElems)

(* ---------------------------- state machine ---------------------------- *)

\* let u = ..; let v = ..; let s = ..; let mut u2 = u;
Init ==
  /\ build \in Builds
  /\ op = "none"
  /\ \/ \E p \in Pairs : u = p[1] /\ v = p[2] /\ s = 0
     \/ \E q \in Scaled : u = q[1] /\ v = Zero /\ s = q[2]
     \/ \E w \in Singles : u = w /\ v = Zero /\ s = 0
  /\ u2 = u
  /\ conv = None
  /\ ret = Panic

\* a call that returns r (or panics) and leaves the operands alone
Call(name, r) ==
  /\ op = "none"
  /\ op' = name
  /\ ret' = r
  /\ UNCHANGED <<build, u, v, s, u2, conv>>

\* a compound assignment on the receiver u2
CallAssign(name, r) ==
  /\ op = "none"
  /\ op' = name
  /\ u2' = r.val
  /\ ret' = [ok |-> r.ok, val |-> 0]
  /\ UNCHANGED <<build, u, v, s, conv>>

\* the outcomes of the conversion of the squared sum q; no conversion is
\* attempted when the sum has panicked
Conversions(q) == IF q.ok THEN to_f64(q.val) ELSE {None}

\* a call during which the conversion to f64 had the outcome c
CallConv(name, c, r) ==
  /\ op = "none"
  /\ op' = name
  /\ conv' = c
  /\ ret' = r
  /\ UNCHANGED <<build, u, v, s, u2>>

Eq == Call("eq", Ok(eq(u, v)))
Ne == Call("ne", Ok(ne(u, v)))
Neg == Call("neg", neg(u))
Add == Call("add", add(u, v))
Sub == Call("sub", sub(u, v))
Mul == Call("mul", mul(u, s))
Div == Call("div", div(u, s))
AddAssign == CallAssign("add_assign", add_assign(u2, v))
SubAssign == CallAssign("sub_assign", sub_assign(u2, v))
MulAssign == CallAssign("mul_assign", mul_assign(u2, s))
DivAssign == CallAssign("div_assign", div_assign(u2, s))
Abs == Call("abs", abs(u))

Dot == Call("dot", dot(u, v))
Cross == Call("cross", cross(u, v))
AbsDot == Call("abs_dot", abs_dot(u, v))

LengthSquared ==
  \E c \in Conversions(SquaredSum(u)) :
    CallConv("length_squared", c, length_squared(u, c))
Length ==
  \E c \in Conversions(SquaredSum(u)) :
    CallConv("length", c, length(u, c))

NextArith ==
  \/ Eq \/ Ne \/ Neg \/ Add \/ Sub \/ Mul \/ Div
  \/ AddAssign \/ SubAssign \/ MulAssign \/ DivAssign \/ Abs
NextProd == Dot \/ Cross \/ AbsDot
NextLen == LengthSquared \/ Length

Next == NextArith \/ NextProd \/ NextLen

SpecArith == Init /\ [][NextArith]_vars
SpecProd == Init /\ [][NextProd]_vars
SpecLen == Init /\ [][NextLen]_vars
Spec == Init /\ [][Next]_vars

(* ------------------------------ properties ----------------------------- *)

InRange(n) == n \in MinInt..MaxInt
MathAbs(n) == IF n < 0 THEN -n ELSE n

\* C1: each compound assignment leaves the receiver equal to the result of
\* the pure operator on the receiver's previous value (and panics exactly
\* when the pure operator panics); the right-hand operand is unchanged.
C1_CompoundAssignConsistent ==
  [][/\ op' = "add_assign" =>
          /\ v' = v
          /\ LET e == add(u2, v) IN
               /\ ret'.ok = e.ok
               /\ e.ok => u2' = e.val
     /\ op' = "sub_assign" =>
          /\ v' = v
          /\ LET e == sub(u2, v) IN
               /\ ret'.ok = e.ok
               /\ e.ok => u2' = e.val
     /\ op' = "mul_assign" =>
          /\ s' = s
          /\ LET e == mul(u2, s) IN
               /\ ret'.ok = e.ok
               /\ e.ok => u2' = e.val
     /\ (op' = "div_assign" /\ s # 0) =>
          /\ s' = s
          /\ LET e == div(u2, s) IN
               /\ ret'.ok = e.ok
               /\ e.ok => u2' = e.val]_vars

\* a compound assignment has changed the receiver
C1_Witness ==
  /\ op \in {"add_assign", "sub_assign", "mul_assign", "div_assign"}
  /\ ret.ok
  /\ u2 # u

\* the cross product over the mathematical integers
CrossExact(a, b) ==
  new(a.y * b.z - a.z * b.y, a.z * b.x - a.x * b.z, a.x * b.y - a.y * b.x)

\* C2: u.cross(v) is the vector (u.y*v.z - u.z*v.y, u.z*v.x - u.x*v.z,
\* u.x*v.y - u.y*v.x), the arithmetic being the element type's;
\* (1,-2,-3).cross((2,4,-6)) is (24,0,8).
C2_CrossComponents ==
  op = "cross" =>
    LET e == CrossExact(u, v) IN
      /\ build = "release" => ret.ok
      /\ ret.ok => ret.val = new(Wrap(e.x), Wrap(e.y), Wrap(e.z))
      /\ (ret.ok /\ build = "debug") => ret.val = e
      /\ (u = new(1, -2, -3) /\ v = new(2, 4, -6)) => ret = Ok(new(24, 0, 8))

C2_Witness ==
  /\ op = "cross"
  /\ u = new(1, -2, -3) /\ v = new(2, 4, -6)
  /\ ret = Ok(new(24, 0, 8))

\* C3: u.dot(v) is (u.x*v.x + u.y*v.y) + u.z*v.z, evaluated left to right:
\* with overflow checks it returns the sum exactly when the three products
\* and the two partial sums taken in that order are representable, and
\* without them it returns the wrapped sum; (1,-2,-3).dot((2,4,-6)) is 12.
C3_DotLeftToRight ==
  op = "dot" =>
    LET p1 == u.x * v.x
        p2 == u.y * v.y
        p3 == u.z * v.z
        fits == /\ InRange(p1) /\ InRange(p2) /\ InRange(p1 + p2)
                /\ InRange(p3) /\ InRange((p1 + p2) + p3)
    IN /\ build = "debug" => ret = (IF fits THEN Ok((p1 + p2) + p3) ELSE Panic)
       /\ build = "release" => ret = Ok(Wrap((p1 + p2) + p3))
       /\ (u = new(1, -2, -3) /\ v = new(2, 4, -6)) => ret = Ok(12)

\* the left-to-right sum overflows where the right-to-left sum would not
C3_Witness ==
  /\ op = "dot"
  /\ build = "debug"
  /\ ~ret.ok
  /\ LET p1 == u.x * v.x
         p2 == u.y * v.y
         p3 == u.z * v.z
     IN /\ InRange(p1) /\ InRange(p2) /\ InRange(p3)
        /\ InRange(p2 + p3) /\ InRange(p1 + (p2 + p3))

\* C4: two vectors are equal if and only if all three corresponding
\* components are equal: a vector equals itself and is unequal to every
\* vector that differs from it in at least one component.
C4_StructuralEquality ==
  /\ op = "eq" => ret.val = (u = v)
  /\ op = "ne" => ret.val = (u # v)

\* the vectors differ in the last component only
C4_Witness ==
  /\ op = "eq"
  /\ u.x = v.x /\ u.y = v.y /\ u.z # v.z
  /\ ret.val = FALSE

\* C5: length_squared() is the f64 conversion of dot(self): the sum is
\* computed in the element type and only then converted.
C5_LengthSquaredIsConvertedDot ==
  op = "length_squared" =>
    LET d == dot(u, u) IN
      IF ~d.ok THEN ~ret.ok
      ELSE /\ conv \in to_f64(d.val)
           /\ conv.some => ret = Ok(RoundF64(d.val))
           /\ ~conv.some => ~ret.ok

\* the conversion has rounded the sum
C5_Witness ==
  /\ op = "length_squared"
  /\ ret.ok
  /\ dot(u, u).ok
  /\ ret.val # dot(u, u).val

\* C6 as stated: abs_dot is the absolute value of the dot product and is
\* never negative.
C6_AbsDotNeverNegative ==
  (op = "abs_dot" /\ ret.ok) =>
    /\ ret.val >= 0
    /\ dot(u, v).ok => ret.val = MathAbs(dot(u, v).val)

\* C6 (amended): abs_dot is the element type's absolute value of the dot
\* product: |u.dot(v)|, non-negative, unless the dot product is the minimum
\* of the element type, where a build with overflow checks panics and a
\* build without returns that minimum.
C6_AbsDotIsElemAbs ==
  op = "abs_dot" =>
    LET d == dot(u, v) IN
      IF ~d.ok THEN ~ret.ok
      ELSE IF d.val = MinInt
        THEN ret = (IF build = "debug" THEN Panic ELSE Ok(MinInt))
        ELSE ret = Ok(MathAbs(d.val)) /\ ret.val >= 0

\* a negative dot product has been made positive
C6_Witness ==
  /\ op = "abs_dot"
  /\ dot(u, v).ok
  /\ dot(u, v).val < 0
  /\ ret.ok
  /\ ret.val = -dot(u, v).val

\* C7: the cross product is orthogonal to both operands: whenever
\* u.cross(v).dot(u) and u.cross(v).dot(v) evaluate, they are 0.
C7_CrossDotOrthogonal ==
  (op = "cross" /\ ret.ok) =>
    LET du == dot(ret.val, u)
        dv == dot(ret.val, v)
    IN /\ du.ok => du.val = 0
       /\ dv.ok => dv.val = 0

\* a cross product whose components wrapped around and that is not zero
C7_Witness ==
  /\ op = "cross"
  /\ ret.ok
  /\ ret.val # Zero
  /\ ret.val # CrossExact(u, v)
  /\ dot(ret.val, u) = Ok(0)
  /\ dot(ret.val, v) = Ok(0)

\* C8: -u negates each component, and u + (-u) is the zero vector.
C8_AddNegationIsZero ==
  (op = "neg" /\ ret.ok) =>
    /\ ret.val = new(Wrap(-u.x), Wrap(-u.y), Wrap(-u.z))
    /\ add(u, ret.val) = Ok(Zero)

\* a vector with a component that is its own negation
C8_Witness ==
  /\ op = "neg"
  /\ ret.ok
  /\ u.x = MinInt
  /\ u.y = 1
  /\ add(u, ret.val) = Ok(Zero)

\* C9 as stated: for every non-zero scalar s, (u * s) / s is u.
C9_MulThenDivIsIdentity ==
  (op = "mul" /\ s # 0 /\ ret.ok) => div(ret.val, s) = Ok(u)

\* C9 (amended): for every non-zero scalar s, (u * s) / s is u provided
\* none of the products u.x*s, u.y*s, u.z*s overflows the element type.
C9_MulThenDivIsIdentityNoOverflow ==
  (op = "mul" /\ s # 0 /\ InRange(u.x * s) /\ InRange(u.y * s) /\ InRange(u.z * s)) =>
    /\ ret.ok
    /\ div(ret.val, s) = Ok(u)

\* a vector scaled by a scalar other than 0, 1 and -1
C9_Witness ==
  /\ op = "mul"
  /\ s \notin {0, 1, -1}
  /\ u.x # 0 /\ u.y # 0 /\ u.z # 0
  /\ ret.ok
  /\ ret.val = new(u.x * s, u.y * s, u.z * s)
  /\ div(ret.val, s) = Ok(u)

\* C10: when the squared sum cannot be converted to f64, length_squared and
\* length panic; they return only when the conversion succeeded, and
\* length_squared then returns the converted sum.
C10_ConversionFailureIsLoud ==
  op \in {"length_squared", "length"} =>
    /\ ~conv.some => ~ret.ok
    /\ ret.ok =>
         /\ conv.some
         /\ conv.val = RoundF64(Wrap(u.x * u.x + u.y * u.y + u.z * u.z))
         /\ op = "length_squared" => ret.val = conv.val

\* the sum was computed and its conversion failed
C10_Witness ==
  /\ op = "length"
  /\ SquaredSum(u).ok
  /\ ~conv.some
  /\ ~ret.ok
====
